---- MODULE Spec2Model ----
(***************************************************************************)
(* Model of the travel_guide tool of src/main.py: one request walks        *)
(* through the geocoder, the description, weather, events and cuisine      *)
(* lookups and the final formatting.  Every upstream HTTP exchange is one  *)
(* step whose response is drawn from a bounded set of payloads.            *)
(*                                                                         *)
(* Conventions.  A Python value that may be None, and a dict key that may  *)
(* be absent, is a sequence of length at most one: None is << >> and a     *)
(* present value v is <<v>>.  Texts the code slices (the encyclopedia      *)
(* extract, the description) are sequences of one-character strings.       *)
(* Other texts are TLA+ strings; the text "name, country" is the pair      *)
(* <<name, country>> and a display name is the sequence of its             *)
(* comma-separated segments.                                               *)
(***************************************************************************)
EXTENDS Integers, Sequences, FiniteSets, TLC

VARIABLES pc, detail_level, OWM_KEY, TICKETMASTER_KEY, loc, response,
          term_idx, requests, res, result

vars == <<pc, detail_level, OWM_KEY, TICKETMASTER_KEY, loc, response,
          term_idx, requests, res, result>>

\* ---------------------------------------------------------------- bounds
\* Longest list an upstream payload carries (events, meals).
MaxPayload == 4
\* Extract lengths are taken this far on each side of the two thresholds.
Slack == 1

\* ------------------------------------------------------ program constants
MinExtractLen == 50
MaxDescriptionLen == 200
MaxItems == 3

\* ---------------------------------------------------------------- values
None == << >>
Some(v) == <<v>>

\* Python truthiness of an optional string: None and "" are falsy.
TruthyStr(o) == o # None /\ o[1] # ""

\* Python truthiness of a float: 0.0 (and -0.0) is falsy.
TruthyNum(x) == x # 0

Min(a, b) == IF a < b THEN a ELSE b

\* dict.get(key, default) on an optional entry.
GetOr(o, default) == IF o = None THEN default ELSE o[1]

\* The outcome of a call: a returned value or a raised exception.
Return(v) == [raised |-> FALSE, value |-> v]
Raise(msg) == [raised |-> TRUE, value |-> msg]

\* ------------------------------------------------------------- responses
ErrorResponse(msg) ==
    [isError |-> TRUE, structuredContent |-> None,
     content |-> <<"Error: ", msg>>]

SuccessResponse(resp, text) ==
    [isError |-> FALSE, structuredContent |-> Some(resp), content |-> text]

\* Value of loc and response before the geocoder has answered.
NoLoc ==
    [name |-> "", type |-> "unknown", country |-> None, country_code |-> "",
     city |-> None, coordinates |-> None]

NoResponse ==
    [name |-> "", type |-> "unknown", country |-> None, coordinates |-> None,
     description |-> None, weather |-> None, events |-> None, dishes |-> None]

\* One entry of the log of upstream requests issued by the request.
Request(api, term) == [api |-> api, term |-> term]

\* ------------------------------------------------------ get_location_info
\* str.upper on the country codes of the model.
Upper(s) == CASE s = "fr" -> "FR" [] s = "de" -> "DE" [] OTHER -> s

\* float() on a coordinate text: sign and magnitude, so "-0.0" parses to 0.
Float(t) == IF t.neg THEN 0 - t.mag ELSE t.mag

Coord(neg, mag) == [neg |-> neg, mag |-> mag]

Address(country, code, city, town, village) ==
    [country |-> country, country_code |-> code, city |-> city,
     town |-> town, village |-> village]

\* The address breakdowns and display names the geocoder answers with.
Places ==
    { [display_name |-> Some(<<"Paris", "Ile-de-France", "France">>),
       address |-> Some(Address(Some("France"), Some("fr"), Some("Paris"), None, None))],
      [display_name |-> Some(<<"France">>),
       address |-> Some(Address(Some("France"), Some("fr"), None, None, None))],
      [display_name |-> Some(<<"Bad Berleburg", "Germany">>),
       address |-> Some(Address(Some("Germany"), Some("de"), None, Some("Bad Berleburg"), None))],
      [display_name |-> None, address |-> None] }

KindTokens == {Some("city"), Some("peak")}
LatTokens == {None, Some(Coord(FALSE, 0)), Some(Coord(TRUE, 0)), Some(Coord(FALSE, 48))}
LonTokens == {None, Some(Coord(FALSE, 0)), Some(Coord(FALSE, 2))}

GeoResults ==
    { [display_name |-> p.display_name, address |-> p.address,
       type |-> k, lat |-> la, lon |-> lo] :
        p \in Places, k \in KindTokens, la \in LatTokens, lo \in LonTokens }

\* What the geocoding exchange can produce: a transport failure, a non-2xx
\* status, a body that is not JSON, an empty list, or a list of results.
GeoResponses ==
    { [kind |-> "exception", status |-> 0, json |-> FALSE, data |-> << >>],
      [kind |-> "response", status |-> 500, json |-> TRUE, data |-> << >>],
      [kind |-> "response", status |-> 200, json |-> FALSE, data |-> << >>],
      [kind |-> "response", status |-> 200, json |-> TRUE, data |-> << >>] }
    \cup { [kind |-> "response", status |-> 200, json |-> TRUE, data |-> <<g>>] :
            g \in GeoResults }

FirstOf(a, b, c) ==
    IF TruthyStr(a) THEN a ELSE IF TruthyStr(b) THEN b ELSE c

\* Mutant: zero results answer an empty place instead of raising.
get_location_info_lenient(r) ==
    IF r.kind = "exception" THEN Raise("request failed")
    ELSE IF r.status \notin 200..299 THEN Raise("http status")
    ELSE IF ~r.json THEN Raise("invalid json")
    ELSE Return(NoLoc)

get_location_info(r) ==
    IF r.kind = "exception" THEN Raise("request failed")
    ELSE IF r.status \notin 200..299 THEN Raise("http status")
    ELSE IF ~r.json THEN Raise("invalid json")
    ELSE IF r.data = << >> THEN Raise("Location not found")
    ELSE LET g == r.data[1]
             address == GetOr(g.address, Address(None, None, None, None, None))
             segments == GetOr(g.display_name, << >>)
         IN  IF g.lat # None /\ g.lon = None THEN Raise("'lon'")
             ELSE Return(
                 [name |-> IF segments = << >> THEN "" ELSE Head(segments),
                  type |-> GetOr(g.type, "unknown"),
                  country |-> address.country,
                  country_code |-> Upper(GetOr(address.country_code, "")),
                  city |-> FirstOf(address.city, address.town, address.village),
                  coordinates |-> IF g.lat # None
                                  THEN Some(<<Float(g.lat[1]), Float(g.lon[1])>>)
                                  ELSE None])

\* ----------------------------------------------- get_location_description
Fill(n) == [i \in 1..n |-> "a"]

Tails == { << >>, <<".">>, <<".", " ", "b">> }

ExtractLens ==
    {0} \cup (MinExtractLen - Slack .. MinExtractLen + Slack)
        \cup (MaxDescriptionLen - Slack .. MaxDescriptionLen + Slack)

Extracts == { Fill(n) \o t : n \in ExtractLens, t \in Tails }

\* The summary exchange: a transport failure, a non-200 status, a body that
\* is not JSON, a JSON body without extract, or one with an extract.
WikiResponses ==
    { [kind |-> "exception", status |-> 0, json |-> FALSE, extract |-> None],
      [kind |-> "response", status |-> 404, json |-> TRUE, extract |-> None],
      [kind |-> "response", status |-> 200, json |-> FALSE, extract |-> None],
      [kind |-> "response", status |-> 200, json |-> TRUE, extract |-> None] }
    \cup { [kind |-> "response", status |-> st, json |-> TRUE, extract |-> Some(e)] :
            st \in {200, 404}, e \in Extracts }

description_terms(name, country) ==
    IF TruthyStr(country) /\ name # country[1]
    THEN << <<name>>, <<name, country[1]>> >>
    ELSE << <<name>> >>

\* extract.split('. ')[0]
DotSpaceAt(s) == { i \in 1..(Len(s) - 1) : s[i] = "." /\ s[i + 1] = " " }

split_first(s) ==
    IF DotSpaceAt(s) = {} THEN s
    ELSE LET i == CHOOSE k \in DotSpaceAt(s) : \A j \in DotSpaceAt(s) : k <= j
         IN  SubSeq(s, 1, i - 1)

endswith_dot(s) == Len(s) > 0 /\ s[Len(s)] = "."

first_sentence(extract) ==
    LET s0 == split_first(extract)
    IN  IF endswith_dot(s0) THEN s0 ELSE Append(s0, ".")

Ellipsis == <<".", ".", ".">>

\* Mutant: the cut is taken one character late.
truncated_late(fs) ==
    SubSeq(fs, 1, Min(MaxDescriptionLen + 1, Len(fs)))
        \o (IF Len(fs) > MaxDescriptionLen THEN Ellipsis ELSE << >>)

truncated(fs) ==
    SubSeq(fs, 1, Min(MaxDescriptionLen, Len(fs)))
        \o (IF Len(fs) > MaxDescriptionLen THEN Ellipsis ELSE << >>)

\* Mutant: an extract of exactly MinExtractLen characters is accepted.
usable_extract_inclusive(extract) ==
    extract # << >> /\ Len(extract) >= MinExtractLen

usable_extract(extract) == extract # << >> /\ Len(extract) > MinExtractLen

\* One pass of the loop over search_terms: either the function returns
\* (done, with the returned value) or the loop goes on to the next term.
description_attempt(r) ==
    IF r.kind = "exception" THEN [done |-> TRUE, value |-> None]
    ELSE IF r.status # 200 THEN [done |-> FALSE, value |-> None]
    ELSE IF ~r.json THEN [done |-> TRUE, value |-> None]
    ELSE LET extract == GetOr(r.extract, << >>)
         IN  IF usable_extract(extract)
             THEN [done |-> TRUE, value |-> Some(truncated(first_sentence(extract)))]
             ELSE [done |-> FALSE, value |-> None]

\* ------------------------------------------------------------ get_weather
WeatherResponses ==
    { [kind |-> "exception", status |-> 0, json |-> FALSE, main |-> None, weather |-> None],
      [kind |-> "response", status |-> 200, json |-> FALSE, main |-> None, weather |-> None],
      [kind |-> "response", status |-> 401, json |-> TRUE, main |-> None, weather |-> None],
      [kind |-> "response", status |-> 200, json |-> TRUE,
       main |-> Some([temp |-> Some(21)]), weather |-> Some(<< >>)],
      [kind |-> "response", status |-> 200, json |-> TRUE,
       main |-> Some([temp |-> None]),
       weather |-> Some(<<[description |-> Some("clear sky")]>>)],
      [kind |-> "response", status |-> 200, json |-> TRUE,
       main |-> Some([temp |-> Some(21)]),
       weather |-> Some(<<[description |-> Some("clear sky")]>>)] }

\* The early return of get_weather, taken before any request is built.
weather_skipped(lat, lon, key) ==
    ~TruthyNum(lat) \/ ~TruthyNum(lon) \/ key = ""

\* Mutant: no try/except around the request.
get_weather_unguarded(r) ==
    IF r.kind = "exception" THEN Raise("request failed")
    ELSE IF ~r.json THEN Raise("invalid json")
    ELSE Return(Some([temp |-> GetOr(r.main, [temp |-> None]).temp,
                      conditions |-> None]))

\* The body of get_weather after the request: the status is never looked
\* at, absent keys read as None, and any exception returns None.
get_weather(r) ==
    IF r.kind = "exception" THEN Return(None)
    ELSE IF ~r.json THEN Return(None)
    ELSE LET main == GetOr(r.main, [temp |-> None])
             weather == GetOr(r.weather, <<[description |-> None]>>)
         IN  IF weather = << >> THEN Return(None)
             ELSE Return(Some([temp |-> main.temp,
                               conditions |-> weather[1].description]))

\* ------------------------------------------------------------- get_events
\* Mutant: a natural feature is taken for a populated place.
PopulatedKindsWithPeak ==
    {"city", "town", "village", "municipality", "hamlet", "suburb", "peak"}

PopulatedKinds == {"city", "town", "village", "municipality", "hamlet", "suburb"}

Names == <<"one", "two", "three", "four", "five", "six", "seven", "eight">>
Name(i) == Names[((i - 1) % Len(Names)) + 1]

\* Upstream event i: odd entries carry every field, even entries none.
Event(i) ==
    IF i % 2 = 1
    THEN [name |-> Some(Name(i)), date |-> Some("2026-01-01"),
          venues |-> Some(<<[name |-> Some("Hall")]>>)]
    ELSE [name |-> None, date |-> None, venues |-> None]

EventList(n) == [i \in 1..n |-> Event(i)]

\* A payload whose second event has an empty venue list.
BrokenEventList == <<Event(1), [Event(3) EXCEPT !.venues = Some(<< >>)]>>

EventsResponses ==
    { [kind |-> "exception", status |-> 0, json |-> FALSE, events |-> None],
      [kind |-> "response", status |-> 500, json |-> TRUE, events |-> Some(EventList(2))],
      [kind |-> "response", status |-> 200, json |-> FALSE, events |-> None],
      [kind |-> "response", status |-> 200, json |-> TRUE, events |-> None],
      [kind |-> "response", status |-> 200, json |-> TRUE, events |-> Some(BrokenEventList)] }
    \cup { [kind |-> "response", status |-> 200, json |-> TRUE, events |-> Some(EventList(n))] :
            n \in 0..MaxPayload }

\* Mutant: the list is not cut.
CapNone(s) == s

\* list[:3]
Cap(s) == SubSeq(s, 1, Min(MaxItems, Len(s)))

\* len(country_code) == 2 on the country codes of the model.
IsTwoLetter(code) == code \in {"FR", "DE"}

events_params(l, key) ==
    [apikey |-> key, size |-> MaxItems,
     city |-> IF TruthyStr(l.city) THEN l.city ELSE None,
     countryCode |-> IF IsTwoLetter(l.country_code) THEN Some(l.country_code) ELSE None,
     latlong |-> l.coordinates,
     radius |-> IF l.coordinates # None THEN Some(50) ELSE None]

event_summary(e) ==
    [name |-> GetOr(e.name, "Unknown Event"),
     date |-> GetOr(e.date, "TBA"),
     venue |-> IF e.venues # None THEN GetOr(e.venues[1][1].name, "") ELSE ""]

\* The body of get_events after the request; every exception returns [].
get_events(r) ==
    IF r.kind = "exception" THEN Return(<< >>)
    ELSE IF r.status # 200 THEN Return(<< >>)
    ELSE IF ~r.json THEN Return(<< >>)
    ELSE IF r.events = None THEN Return(<< >>)
    ELSE LET taken == Cap(r.events[1])
         IN  IF \E i \in 1..Len(taken) : taken[i].venues = Some(<< >>)
             THEN Return(<< >>)
             ELSE Return([i \in 1..Len(taken) |-> event_summary(taken[i])])

\* ------------------------------------------------------------- get_dishes
country_map ==
    ("United States" :> "American") @@ ("United Kingdom" :> "British")
    @@ ("UK" :> "British") @@ ("China" :> "Chinese") @@ ("India" :> "Indian")
    @@ ("Italy" :> "Italian") @@ ("France" :> "French") @@ ("Mexico" :> "Mexican")
    @@ ("Japan" :> "Japanese") @@ ("Thailand" :> "Thai") @@ ("Greece" :> "Greek")
    @@ ("Spain" :> "Spanish") @@ ("Turkey" :> "Turkish") @@ ("Morocco" :> "Moroccan")
    @@ ("Jamaica" :> "Jamaican") @@ ("Canada" :> "Canadian")
    @@ ("Malaysia" :> "Malaysian") @@ ("Egypt" :> "Egyptian")
    @@ ("Tunisia" :> "Tunisian") @@ ("Croatia" :> "Croatian")
    @@ ("Ireland" :> "Irish") @@ ("Poland" :> "Polish")
    @@ ("Portugal" :> "Portuguese") @@ ("Russia" :> "Russian")
    @@ ("Ukraine" :> "Ukrainian") @@ ("Vietnam" :> "Vietnamese")

dish_terms(country) ==
    << IF country \in DOMAIN country_map THEN country_map[country] ELSE country,
       country >>

MealList(n) == [i \in 1..n |-> [strMeal |-> Some(Name(i))]]

DishesResponses ==
    { [kind |-> "exception", status |-> 0, json |-> FALSE, meals |-> None],
      [kind |-> "response", status |-> 500, json |-> TRUE, meals |-> Some(MealList(2))],
      [kind |-> "response", status |-> 200, json |-> FALSE, meals |-> None],
      [kind |-> "response", status |-> 200, json |-> TRUE, meals |-> None] }
    \cup { [kind |-> "response", status |-> 200, json |-> TRUE, meals |-> Some(MealList(n))] :
            n \in 0..MaxPayload }

\* One pass of the loop over the two cuisine terms.
dishes_attempt(r) ==
    IF r.kind = "exception" THEN [done |-> FALSE, value |-> << >>]
    ELSE IF r.status # 200 THEN [done |-> FALSE, value |-> << >>]
    ELSE IF ~r.json THEN [done |-> FALSE, value |-> << >>]
    ELSE IF r.meals = None \/ r.meals = Some(<< >>) THEN [done |-> FALSE, value |-> << >>]
    ELSE LET taken == Cap(r.meals[1])
         IN  [done |-> TRUE,
              value |-> [i \in 1..Len(taken) |-> [name |-> taken[i].strMeal]]]

\* ----------------------------------------------------------- travel_guide
\* Mutant: the detail level is not consulted.
wants_full_always(level) == TRUE

\* detail_level == "full"
wants_full(level) == level = "full"

\* The digest, as the sequence of the sections it concatenates.
text_parts(l, resp, level) ==
    <<"header">>
    \o (IF TruthyStr(l.country) /\ l.name # l.country[1] THEN <<"country">> ELSE << >>)
    \o (IF ~wants_full(level) THEN << >>
        ELSE (IF resp.description # None /\ resp.description # Some(<< >>)
              THEN <<"description">> ELSE << >>)
          \o (IF resp.weather # None THEN <<"weather">> ELSE << >>)
          \o (IF resp.events # None /\ resp.events # Some(<< >>)
              THEN <<"events">> \o [i \in 1..Len(resp.events[1]) |-> "event"]
              ELSE << >>)
          \o (IF resp.dishes # None /\ resp.dishes # Some(<< >>)
              THEN <<"dishes">> \o [i \in 1..Len(resp.dishes[1]) |-> "dish"]
              ELSE << >>))

Init ==
    /\ pc = "get_location_info"
    /\ detail_level \in {"basic", "full"}
    /\ OWM_KEY \in {"", "owm-key"}
    /\ TICKETMASTER_KEY \in {"", "tm-key"}
    /\ loc = NoLoc
    /\ response = NoResponse
    /\ term_idx = 1
    /\ requests = << >>
    /\ res = None
    /\ result = None

\* The except clause of travel_guide.
Fail(msg) ==
    /\ result' = Some(ErrorResponse(msg))
    /\ pc' = "done"

\* loc = await get_location_info(location), and the response skeleton.
GetLocationInfo ==
    /\ pc = "get_location_info"
    /\ \E r \in GeoResponses :
        LET out == get_location_info(r)
        IN  /\ requests' = Append(requests, Request("geocode", <<"location">>))
            /\ res' = Some(r)
            /\ IF out.raised
               THEN /\ Fail(out.value)
                    /\ UNCHANGED <<loc, response>>
               ELSE /\ loc' = out.value
                    /\ response' = [NoResponse EXCEPT
                                      !.name = out.value.name,
                                      !.type = out.value.type,
                                      !.country = out.value.country,
                                      !.coordinates = out.value.coordinates]
                    /\ pc' = IF wants_full(detail_level)
                             THEN "get_location_description" ELSE "format"
                    /\ UNCHANGED result
    /\ UNCHANGED <<detail_level, OWM_KEY, TICKETMASTER_KEY, term_idx>>

\* One request of get_location_description and what the loop does with it.
DescriptionAttempt ==
    /\ pc = "get_location_description"
    /\ \E r \in WikiResponses :
        LET terms == description_terms(loc.name, loc.country)
            out == description_attempt(r)
        IN  /\ requests' = Append(requests, Request("summary", terms[term_idx]))
            /\ res' = Some(r)
            /\ IF ~out.done /\ term_idx < Len(terms)
               THEN /\ term_idx' = term_idx + 1
                    /\ UNCHANGED <<pc, response>>
               ELSE /\ term_idx' = 1
                    /\ pc' = "get_weather"
                    /\ response' = IF out.value # None /\ out.value # Some(<< >>)
                                   THEN [response EXCEPT !.description = out.value]
                                   ELSE response
    /\ UNCHANGED <<detail_level, OWM_KEY, TICKETMASTER_KEY, loc, result>>

\* if loc.get("coordinates") is false: get_weather is not called.
WeatherNoCoordinates ==
    /\ pc = "get_weather"
    /\ loc.coordinates = None
    /\ pc' = "get_events"
    /\ UNCHANGED <<detail_level, OWM_KEY, TICKETMASTER_KEY, loc, response,
                   term_idx, requests, res, result>>

\* get_weather returns None before building a request.
WeatherSkipped ==
    /\ pc = "get_weather"
    /\ loc.coordinates # None
    /\ weather_skipped(loc.coordinates[1][1], loc.coordinates[1][2], OWM_KEY)
    /\ pc' = "get_events"
    /\ UNCHANGED <<detail_level, OWM_KEY, TICKETMASTER_KEY, loc, response,
                   term_idx, requests, res, result>>

\* get_weather issues its request.
WeatherRequest ==
    /\ pc = "get_weather"
    /\ loc.coordinates # None
    /\ ~weather_skipped(loc.coordinates[1][1], loc.coordinates[1][2], OWM_KEY)
    /\ \E r \in WeatherResponses :
        LET out == get_weather(r)
        IN  /\ requests' = Append(requests, Request("weather", loc.coordinates[1]))
            /\ res' = Some(r)
            /\ IF out.raised
               THEN /\ Fail(out.value)
                    /\ UNCHANGED response
               ELSE /\ response' = IF out.value # None
                                   THEN [response EXCEPT !.weather = out.value]
                                   ELSE response
                    /\ pc' = "get_events"
                    /\ UNCHANGED result
    /\ UNCHANGED <<detail_level, OWM_KEY, TICKETMASTER_KEY, loc, term_idx>>

\* The place kind is not a populated place: get_events is not called.
EventsNotPopulated ==
    /\ pc = "get_events"
    /\ loc.type \notin PopulatedKinds
    /\ pc' = "get_dishes"
    /\ UNCHANGED <<detail_level, OWM_KEY, TICKETMASTER_KEY, loc, response,
                   term_idx, requests, res, result>>

\* get_events returns [] because no credential is configured.
EventsSkipped ==
    /\ pc = "get_events"
    /\ loc.type \in PopulatedKinds
    /\ TICKETMASTER_KEY = ""
    /\ pc' = "get_dishes"
    /\ UNCHANGED <<detail_level, OWM_KEY, TICKETMASTER_KEY, loc, response,
                   term_idx, requests, res, result>>

\* get_events issues its request.
EventsRequest ==
    /\ pc = "get_events"
    /\ loc.type \in PopulatedKinds
    /\ TICKETMASTER_KEY # ""
    /\ \E r \in EventsResponses :
        LET out == get_events(r)
        IN  /\ requests' = Append(requests,
                               Request("events", events_params(loc, TICKETMASTER_KEY)))
            /\ res' = Some(r)
            /\ IF out.raised
               THEN /\ Fail(out.value)
                    /\ UNCHANGED response
               ELSE /\ response' = IF out.value # << >>
                                   THEN [response EXCEPT !.events = Some(out.value)]
                                   ELSE response
                    /\ pc' = "get_dishes"
                    /\ UNCHANGED result
    /\ UNCHANGED <<detail_level, OWM_KEY, TICKETMASTER_KEY, loc, term_idx>>

\* No country resolved: get_dishes is not called.
DishesNoCountry ==
    /\ pc = "get_dishes"
    /\ ~TruthyStr(loc.country)
    /\ pc' = "format"
    /\ UNCHANGED <<detail_level, OWM_KEY, TICKETMASTER_KEY, loc, response,
                   term_idx, requests, res, result>>

\* One request of get_dishes and what the loop does with it.
DishesAttempt ==
    /\ pc = "get_dishes"
    /\ TruthyStr(loc.country)
    /\ \E r \in DishesResponses :
        LET terms == dish_terms(loc.country[1])
            out == dishes_attempt(r)
        IN  /\ requests' = Append(requests, Request("cuisine", <<terms[term_idx]>>))
            /\ res' = Some(r)
            /\ IF ~out.done /\ term_idx < Len(terms)
               THEN /\ term_idx' = term_idx + 1
                    /\ UNCHANGED <<pc, response>>
               ELSE /\ term_idx' = 1
                    /\ pc' = "format"
                    /\ response' = IF out.value # << >>
                                   THEN [response EXCEPT !.dishes = Some(out.value)]
                                   ELSE response
    /\ UNCHANGED <<detail_level, OWM_KEY, TICKETMASTER_KEY, loc, result>>

\* The digest is built and the success object returned.
Format ==
    /\ pc = "format"
    /\ result' = Some(SuccessResponse(response,
                                      text_parts(loc, response, detail_level)))
    /\ pc' = "done"
    /\ res' = None
    /\ UNCHANGED <<detail_level, OWM_KEY, TICKETMASTER_KEY, loc, response,
                   term_idx, requests>>

Next ==
    \/ GetLocationInfo
    \/ DescriptionAttempt
    \/ WeatherNoCoordinates
    \/ WeatherSkipped
    \/ WeatherRequest
    \/ EventsNotPopulated
    \/ EventsSkipped
    \/ EventsRequest
    \/ DishesNoCountry
    \/ DishesAttempt
    \/ Format

Spec == Init /\ [][Next]_vars

\* ================================================================ claims
Last(s) == s[Len(s)]

\* Number of requests the log holds for one upstream.
CountReq(api) == Cardinality({ i \in 1..Len(requests) : requests[i].api = api })

Finished == pc = "done" /\ result # None
Succeeded == Finished /\ ~result[1].isError

\* The geocoding exchange did not resolve a place.
GeoFailed(r) ==
    \/ r.kind = "exception"
    \/ r.status \notin 200..299
    \/ ~r.json
    \/ r.data = << >>

\* C1: whenever the geocoding step fails (transport error, non-2xx status,
\* unreadable body or zero results), at either detail level, the request
\* ends at once with isError = true and without structuredContent.
C1_ResolutionFailureIsError ==
    [][ (pc = "get_location_info" /\ res' # None /\ GeoFailed(res'[1]))
            => /\ pc' = "done"
               /\ result' # None
               /\ result'[1].isError
               /\ result'[1].structuredContent = None ]_vars

C1_Witness ==
    /\ Finished
    /\ result[1].isError
    /\ result[1].structuredContent = None
    /\ res # None
    /\ res[1].kind = "response" /\ res[1].status = 200 /\ res[1].json
    /\ res[1].data = << >>
    /\ detail_level = "basic"

\* C2: once the location is resolved in a full-detail request, every step
\* that ends the request ends it with isError = false and a
\* structuredContent object, whatever the four lookups answered.
C2_BestEffortNeverFails ==
    [][ (detail_level = "full" /\ pc # "get_location_info" /\ pc' = "done")
            => /\ result' # None
               /\ ~result'[1].isError
               /\ result'[1].structuredContent # None ]_vars

C2_Witness ==
    /\ Succeeded
    /\ detail_level = "full"
    /\ CountReq("summary") = 2
    /\ CountReq("weather") = 1
    /\ CountReq("events") = 1
    /\ CountReq("cuisine") = 2
    /\ result[1].structuredContent[1].description = None
    /\ result[1].structuredContent[1].weather = None
    /\ result[1].structuredContent[1].events = None
    /\ result[1].structuredContent[1].dishes = None

\* C3: a successful result carries a weather object only when both its temp
\* and its conditions are present (no weather object with a null field).
C3_WeatherNeverPartial ==
    (Succeeded /\ result[1].structuredContent[1].weather # None)
        => /\ result[1].structuredContent[1].weather[1].temp # None
           /\ result[1].structuredContent[1].weather[1].conditions # None

\* C4: in a full-detail request past the weather stage, no weather request
\* was issued and weather is omitted when the coordinates or the credential
\* are absent, and exactly one weather request was issued otherwise, zero
\* latitude or longitude included.
C4_WeatherRequestedIffPossible ==
    (/\ detail_level = "full"
     /\ pc \in {"get_events", "get_dishes", "format", "done"}
     /\ (result = None \/ ~result[1].isError))
        => IF loc.coordinates = None \/ OWM_KEY = ""
           THEN CountReq("weather") = 0 /\ response.weather = None
           ELSE CountReq("weather") = 1

\* C5: a basic request issues no description, weather, events or cuisine
\* request and its structuredContent has none of the four optional keys.
C5_BasicHasNoExtras ==
    detail_level = "basic"
        => /\ \A i \in 1..Len(requests) : requests[i].api = "geocode"
           /\ Finished /\ result[1].structuredContent # None
                => /\ result[1].structuredContent[1].description = None
                   /\ result[1].structuredContent[1].weather = None
                   /\ result[1].structuredContent[1].events = None
                   /\ result[1].structuredContent[1].dishes = None

C5_Witness ==
    /\ Succeeded
    /\ detail_level = "basic"
    /\ OWM_KEY # "" /\ TICKETMASTER_KEY # ""
    /\ loc.type = "city"
    /\ loc.coordinates = Some(<<48, 2>>)
    /\ loc.country = Some("France")

\* C6: when the resolved kind is none of city, town, village, municipality,
\* hamlet, suburb, a full-detail request issues no events request and its
\* structuredContent has no events key.
C6_EventsOnlyForPopulatedPlaces ==
    (/\ detail_level = "full"
     /\ loc.type \notin {"city", "town", "village", "municipality", "hamlet", "suburb"})
        => /\ CountReq("events") = 0
           /\ response.events = None
           /\ Finished /\ result[1].structuredContent # None
                => result[1].structuredContent[1].events = None

C6_Witness ==
    /\ Succeeded
    /\ detail_level = "full"
    /\ loc.type = "peak"
    /\ TICKETMASTER_KEY # ""
    /\ CountReq("cuisine") > 0

\* C7: events and dishes, when present, have between 1 and 3 entries,
\* whatever the length of the upstream payload.
C7_AtMostThreeItems ==
    /\ response.events # None => Len(response.events[1]) \in 1..3
    /\ response.dishes # None => Len(response.dishes[1]) \in 1..3
    /\ Succeeded =>
        /\ result[1].structuredContent[1].events # None
             => Len(result[1].structuredContent[1].events[1]) \in 1..3
        /\ result[1].structuredContent[1].dishes # None
             => Len(result[1].structuredContent[1].dishes[1]) \in 1..3

C7_Witness ==
    /\ pc = "format"
    /\ res # None
    /\ "meals" \in DOMAIN res[1]
    /\ res[1].meals # None
    /\ Len(res[1].meals[1]) > 3
    /\ response.dishes # None /\ Len(response.dishes[1]) = 3
    /\ response.events # None /\ Len(response.events[1]) = 3

EndsWith(s, suffix) ==
    /\ Len(s) >= Len(suffix)
    /\ SubSeq(s, Len(s) - Len(suffix) + 1, Len(s)) = suffix

\* C8: a description, when present, has at most 203 characters and ends
\* with a period or with the three-character ellipsis; it is longer than
\* 200 only when it is 200 characters followed by the ellipsis.
C8_DescriptionBounded ==
    response.description # None
        => LET d == response.description[1]
           IN  /\ Len(d) <= 203
               /\ EndsWith(d, <<".">>) \/ EndsWith(d, <<".", ".", ".">>)
               /\ Len(d) > 200 => Len(d) = 203 /\ EndsWith(d, <<".", ".", ".">>)

C8_Witness ==
    /\ response.description # None
    /\ Len(response.description[1]) = 203
    /\ res # None
    /\ "extract" \in DOMAIN res[1]
    /\ res[1].extract # None
    /\ Len(res[1].extract[1]) > 203

\* The state right after a description attempt whose response had a
\* readable body: res is that response.
AfterSummary ==
    /\ requests # << >>
    /\ Last(requests).api = "summary"
    /\ res # None
    /\ res[1].kind = "response"
    /\ res[1].json

SummaryTerms ==
    LET idx == { i \in 1..Len(requests) : requests[i].api = "summary" }
    IN  [k \in 1..Cardinality(idx) |->
            requests[CHOOSE i \in idx :
                        Cardinality({ j \in idx : j <= i }) = k].term]

\* The candidates of the description lookup as the claim states them.
ExpectedSummaryTerms ==
    IF loc.country # None /\ loc.country # Some("") /\ loc.country[1] # loc.name
    THEN << <<loc.name>>, <<loc.name, loc.country[1]>> >>
    ELSE << <<loc.name>> >>

IsPrefix(s, t) == Len(s) <= Len(t) /\ SubSeq(t, 1, Len(s)) = s

\* No ". " starts in e before position k.
NoBreakBefore(e, k) ==
    \A i \in 1..(k - 1) : ~(i < Len(e) /\ e[i] = "." /\ e[i + 1] = " ")

\* The first sentence of e is its first k characters.
BreaksAt(e, k) ==
    /\ k <= Len(e)
    /\ NoBreakBefore(e, k)
    /\ k = Len(e) \/ (k + 2 <= Len(e) /\ e[k + 1] = "." /\ e[k + 2] = " ")

\* d is the first sentence of e: e up to its first ". ", closed by a period
\* when it has none, cut to 200 characters and marked when cut.
IsFirstSentence(d, e) ==
    LET n == Len(d)
    IN  IF n <= 200
        THEN \/ /\ n >= 1 /\ d[n] = "."
                /\ SubSeq(d, 1, n - 1) = SubSeq(e, 1, n - 1)
                /\ BreaksAt(e, n - 1)
                /\ ~(n >= 2 /\ d[n - 1] = ".")
             \/ /\ n >= 1 /\ d[n] = "."
                /\ IsPrefix(d, e)
                /\ BreaksAt(e, n)
        ELSE /\ n = 203
             /\ SubSeq(d, 201, 203) = <<".", ".", ".">>
             /\ IsPrefix(SubSeq(d, 1, 199), e)
             /\ NoBreakBefore(e, 199)

\* What a description attempt must have done, given the verdict on its
\* response: a rejected response leaves the description unset and moves on
\* to the next candidate when there is one; an accepted response sets the
\* description to its first sentence and ends the lookup.
SummaryLookupFollows(rejected) ==
    /\ IsPrefix(SummaryTerms, ExpectedSummaryTerms)
    /\ AfterSummary =>
        IF rejected
        THEN /\ response.description = None
             /\ pc = "get_location_description"
                    <=> Len(SummaryTerms) < Len(ExpectedSummaryTerms)
        ELSE /\ pc # "get_location_description"
             /\ response.description # None
             /\ IsFirstSentence(response.description[1], res[1].extract[1])

ResExtractLen == IF res[1].extract = None THEN 0 ELSE Len(res[1].extract[1])

\* C10 as stated: name first, then "name, country" when a country is known
\* and differs; a response is rejected exactly when it is non-200 or its
\* extract is shorter than 50 characters.
C10_RejectedBelowFifty ==
    SummaryLookupFollows(AfterSummary /\ (res[1].status # 200 \/ ResExtractLen < 50))

\* C10 amended: name first, then "name, country" when a country is known
\* and differs; a response is rejected exactly when it is non-200 or its
\* extract has 50 characters or fewer, so a 200 response with an extract of
\* more than 50 characters is accepted and its first sentence returned.
C10_RejectedUpToFifty ==
    SummaryLookupFollows(AfterSummary /\ (res[1].status # 200 \/ ResExtractLen <= 50))

C10_Witness ==
    /\ AfterSummary
    /\ res[1].status = 200
    /\ ResExtractLen = 50
    /\ Len(SummaryTerms) = 1
    /\ pc = "get_location_description"
    /\ term_idx = 2

\* C9: no request of the log is issued twice; the cuisine lookup issues at
\* most two requests, the mapped term and then the raw country name, and
\* stops at the first response with a non-empty meal list.
C9_NoRepeatedRequest ==
    /\ \A i, j \in 1..Len(requests) :
            (i # j /\ requests[i].api = requests[j].api)
                => requests[i].term # requests[j].term
    /\ CountReq("cuisine") <= 2
    /\ (requests # << >> /\ Last(requests).api = "cuisine" /\ res # None
        /\ res[1].kind = "response" /\ res[1].status = 200 /\ res[1].json
        /\ res[1].meals # None /\ res[1].meals # Some(<< >>))
            => pc # "get_dishes"

====
